---- MODULE Spec2Model ----
(***************************************************************************)
(* Model of src/src/main.ts: the seeded generator, the cache memento map,  *)
(* the PlayerManager, the localStorage snapshot and the event handlers.    *)
(*                                                                         *)
(* Number representation.  JavaScript numbers are modelled in fixed point: *)
(*   - latitudes/longitudes are integers in units of 1e-5 degree;          *)
(*   - grid rows/columns are integers in units of 1/COORD_SCALE tile, so   *)
(*     a whole grid index n is n * COORD_SCALE and the un-snapped values   *)
(*     the startup load produces are representable;                        *)
(*   - generator values in [0,1) are integers in 0 .. RAND_SCALE-1         *)
(*     (value * RAND_SCALE, floored).                                      *)
(* Strings built by template literals or JSON.stringify are modelled as    *)
(* tuples of their interpolated parts.                                     *)
(*                                                                         *)
(* The preceding revision, src/unnamed/part_001, which keeps the player in *)
(* global variables, is modelled by the record prev and run on the same    *)
(* events in the specification that compares the two revisions.            *)
(***************************************************************************)
EXTENDS Integers, Sequences, FiniteSets, TLC

\* ---------------------------------------------------------------- bounds
MaxEvents == 3         \* handlers run in one behaviour
MaxReach == 1          \* popups opened no farther than this many cells away
MaxCollectIndex == 1   \* collect buttons clicked: indices below this

\* ------------------------------------------------------------- constants
COORD_SCALE == 10
RAND_SCALE == 10000
TILE_DEGREES == 10                  \* 1e-4 degree
NEIGHBORHOOD_SIZE == 5
CACHE_SPAWN_PROBABILITY == 500      \* 0.05
OAKES_LAT == 3698949                \* 36.98949379578401
OAKES_LNG == -12206277              \* -122.06277128548504
INITIAL_SEED == 1234
MAX_COIN_OFFERING == 10             \* nextRandom() * 10 + 1

\* geoWatchId = null (watch handles are positive)
Null == 0

\* localStorage.getItem("gameData") when nothing was saved; a saved
\* snapshot s is held as <<s>>
NoItem == <<>>

\* Math.sin(seed) * 10000 - Math.floor(Math.sin(seed) * 10000) for the seeds
\* 1235, 1236, ... (IEEE double results, scaled by RAND_SCALE and floored).
RandTable == <<
    6572, 8968, 466, 9893, 9369, 8046, 5755, 6686, 6802, 6803, 675, 1967, 9266, 5579, 3507,
    6364, 9614, 6422, 4411, 287, 9472, 6414, 2290, 7524, 2195, 5710, 3897, 4892, 6873, 4148,
    5323, 9999, 2811, 2277, 6820, 6073, 2166, 1992, 6034, 4095, 6141, 2663, 5228, 9745, 1629,
    3649, 644, 6965, 5474, 5934, 1120, 1926, 9392, 3682, 7382, 6165, 5509, 7874, 9795, 2299,
    3543, 7579, 9641, 8233, 7891, 8699, 1605, 7496, 1062, 2145, 2538, 9431, 191, 5057, 9084,
    2221, 8782, 2677, 3675, 2526, 622, 822, 1705, 8546, 8177, 6961, 1162, 8308, 8071, 9050,
    2633, 6887, 2040, 9052, 9259, 4931, 9211, 2219, 8652, 1217, 5692, 2768, 6563, 8572, 8164,
    7533, 463, 1811, 7611, 9176, 9277, 6695, 8318, 6001, 809, 8568, 459, 8074, 5754, 3061,
    350, 2121, 6317, 6190, 8664, 9577, 6902, 4172, 4375, 5387, 5783, 8904, 6412, 5276, 6031,
    9120, 8889, 7746, 722, 5954, 5982, 1863, 4167, 7331, 361, 642, 3677, 4658, 3042, 6341,
    7370, 1499, 8654, 7391, 4793, 5021, 4368, 7814, 8885, 1955, 7126, 2950, 5615, 3073, 7832,
    396, 4200, 6686, 6430, 8784, 2056, 913, 4238, 7466, 9073, 1993, 7165, 2421, 430, 3127,
    5847, 2367, 6062, 5240, 9416, 2057, 3612, 4724, 63, 1869, 993, 27, 7749, 4069, 862,
    7771, 1033, 2883, 7645, 2383, 9623, 8121, 6933, 9237, 9642, 9444, 8958, 2811, 1535, 7279,
    6776, 3644, 4069, 8971, 7592, 8698, 7265, 2726, 1025, 8036, 836, 572, 5416, 8373, 2753,
    3273, 5828, 3022, 9219, 2248, 6686, 3623, 5346, 6815, 8359, 4150, 1865, 793, 1442, 1095,
    4750, 5188, 7325, 8701, 4502, 7454, 5111, 51, 7457, 7328, 6085, 2831, 1759, 2539, 3496,
    6703, 1738, 673, 3927, 7445, 2950, 702, 1641, 7502, 7930, 9804, 566, 4328, 9454, 831,
    568, 9529, 5086, 1880, 3091, 4262, 6761, 5840, 5614, 6491, 4975, 6598, 9618, 1934, 9797,
    3833, 3333, 3903, 9430, 6342, 3566, 4027, 24, 6377, 7302, 3686, 8796, 5938, 3810, 5508,
    9604, 4423, 1475, 7064, 785, 935, 934, 863, 8944, 183, 5452, 464, 5807, 5415, 831,
    4976, 6706, 399, 2542, 6888, 4857, 9293, 2584, 6514, 6669, 1580, 5901, 744, 6157, 8345,
    5173, 7928, 4838, 5314, 2438, 788, 6796, 6380, 2926, 5931, 2928, 7225, 7165, 9710, 7842,
    761, 639, 7455, 255, 2969, 8927, 8599, 4374, 1765, 9641, 6255, 1679, 7406, 7160, 9573,
    3757, 7251, 4758, 1751, 189, 7520, 9090, 3680, 6547, 5843, 807, 7978, 3804, 8240, 2350,
    726, 1162, 4891, 1853, 9950, 7230, 7134, 3282, 121, 4430, 6145, 3009, 8970, 6639, 226,
    1818, 8508, 844, 6355, 5650, 1193, 4711, 4598, 2693, 1179, 6946, 7191, 99, 3519, 5912,
    1881, 9471, 9115, 3307, 856, 4941, 7448, 4213, 9503, 4854, 4082, 2700, 3035, 4378, 2254,
    8846, 5596, 1933, 1120, 783, 8442, 8700, 6808, 3568, 2430, 789, 2956, 6189, 3361, 5403,
    104, 2031, 652, 1146, 9133, 439, 8717, 4161, 4717, 1492, 5165, 189, 7002, 2835, 3738,
    6418, 9250, 4767, 9629, 9939, 7274, 9280, 2683, 8564, 9494, 2799, 2237, 773, 2481, 8338,
    7944, 2786, 3901, 6914, 121, 9521, 6546, 599, 5806, 9951, 1344, 6696, 710, 1779, 2114,
    3293, 5421, 5467, 2912, 2040, 4150, 3595, 6355, 5214, 1730, 7970, 205, 4183, 2268, 5347,
    2433, 5122, 4159, 3874, 2614, 1367, 5518, 2462, 4650, 4044, 5354, 1057, 1384, 93, 2448,
    4513, 7887, 5087, 1994, 6093, 9885, 5771, 5991, 9940, 3818, 8373, 2818, 1323, 4399, 4102,
    233, 8673, 3026, 9990, 913, 536, 5580, 8016, 7296, 3978, 3298, 9603, 6921, 6013, 8953,
    4927, 4758, 6530, 2920, 100, 8150, 7077, 9977, 6369, 1884, 4757, 8952, 4572, 9619, 7204,
    2666, 4765, 3895, 8771, 7377, 9325, 2692, 202, 70, 1441, 235, 4405, 6811, 3930, 4662,
    836, 9976, 4758, 9015, 4521, 1887, 9812, 2276, 8747, 6443, 8737, 7148, 8182, 9106, 4737,
    1730, 7680, 7644, 5113, 733, 2940, 5897, 9698, 1325, 1403, 5182, 2239, 9962, 940, 7821,
    5416, 5666, 7917, 9570, 1491, 5610, 182, 9800, 6133, 3508, 1387, 9193, 2242, 8290, 2036,
    4270, 6812, 8452, 5083, 4770, 528, 7092, 2808, 9793, 1218, 2398, 1626, 3195, 5107, 5370,
    7088, 6236, 6047, 3428, 586, 2823, 3946, 3170, 535, 82, 3566, 3977, 5790, 2927, 6511,
    7159, 3902, 7013, 2490, 4436, 9325, 2718, 2686, 3189, 2624, 1378, 8504, 707, 2365, 6415,
    6610, 9212, 1749, 3732, 95, 2172, 6689, 3492, 6673, 2126, 6129, 1532, 6590, 5966, 4510,
    8144, 2552, 6407, 550, 1166, 9016, 6906, 1693, 3668, 9028, 2162, 1818, 7552, 7522, 8235,
    7102, 251, 2537, 8856, 7076, 8539, 1352, 9829, 8464, 3190, 2179, 1505, 1921, 6926, 4608,
    1273, 4039, 8276, 8460, 7951, 917, 7672, 4720, 5786, 1483, 4438, 9742, 3796, 9693, 2817,
    4282, 9851, 3372, 1326, 4805, 2020, 4427, 5968, 9107, 5010, 9073, 1260, 7926, 8768, 7903,
    9828, 1833, 8543, 2883, 6991, 2385, 3981, 9247, 4443, 2725, 288, 816, 6318, 1253, 4602,
    1470, 7914, 5574, 4867, 6012, 2457, 4973, 2835, 7487, 2240, 5115, 9130, 2376, 9702, 903,
    3950, 9594, 3697, 1197, 7991, 8291, 7019, 4287, 3008, 7599, 3608, 7202, 8636, 6696, 6288,
    575, 3167, 6191, 7805, 6054, 6198, 5304, 4942, 9600, 6665, 9168, 5114, 6989, 9159, 3555,
    2159, 1402, 3368, 2493, 7963, 7036, 2732, 3953, 5275, 3264, 2230, 2288, 8245, 2087, 8903,
    9757, 8669, 8068, 4298, 2846, 6867, 5061, 6640, 7425, 4146, 4834, 7730, 3879, 169, 8947,
    2387, 6448, 727, 2631, 7035, 6960, 4485, 2261, 249, 7107, 3835, 2254, 4892, 9800, 531,
    5915, 3904, 877, 4294, 506, 4937, 700, 3886, 4739, 3350, 9150, 7891, 7513, 4918, 4408,
    6622, 5285, 416, 7656, 5569, 1921, 6384, 8575, 2421, 308, 5950, 9857, 2011, 7124, 5856,
    3102, 5506, 2401, 7045, 4530, 2857, 161, 666, 4770, 3010, 7476, 1739, 9709, 2553, 9099,
    6934, 1672, 1545, 4976, 8915, 7556, 8426, 93, 2732, 2675, 8086, 6869, 2214, 4094, 7929,
    2704, 5816, 2294, 3191, 5368, 2713, 1061, 7971, 3115, 3207, 5042, 2347, 5275, 3219, 5603,
    1904, 5655, 6783, 8323, 9837, 2752, 7544, 2307, 3168, 3082, 9629, 2780, 7755, 944, 2919,
    5389, 9801, 31, 4131, 4359, 9252, 9875, 612, 2567, 8276, 9852, 1016, 9364, 2957, 172,
    9968, 6339, 9809, 5905, 6096, 4884, 332, 2750, 9418, 9853, 1712, 3556, 4113, 3401, 9689,
    2693, 6804, 8638, 5194, 9485, 521, 9874, 4841, 9490, 8481, 8508, 5672, 1453, 2330, 2528,
    9139, 5249, 54, 957, 6731, 4634, 7217, 8522, 7905, 6166, 1560, 766, 2064, 7528, 2336,
    9376, 5509, 4040, 6995, 38, 9033, 8711, 4514, 4714, 634, 2115, 8167, 5949, 8640, 3823,
    7663, 5767, 8687, 9810, 9242, 7639, 8566, 7110, 8205, 6383, 5843, 640, 5637, 3591, 9624,
    202, 6155, 7207, 1237, 4916, 2763, 228, 6419, 5524, 4091, 8852, 5601, 4600, 2384, 997,
    386, 284, 5867, 6505, 3597, 501, 8434, 56, 9641, 1090, 5005, 2701, 8544, 9360, 9914,
    9992, 70, 3175, 3360, 5777, 4879, 6348, 8701, 5892, 7814, 8526, 3321, 9071, 1313, 4456,
    1910, 2975, 3151, 1266, 7459, 7366, 3264, 7648, 8860, 4175, 3913, 1206, 9574, 800, 4545,
    5152, 3165, 4258, 3544, 7628, 1125, 6315, 9255, 610, 4242, 3112, 9198, 9630, 4111, 1587,
    9083, 9026, 2534, 4474, 4322, 7603, 9858, 6517, 1136, 5143, 5864, 9459, 4252, 7571, 6796,
    8137, 2861, 4229, 1505, 9606, 7886, 2266, 6131, 7287, 7335, 7157, 3363, 8390, 8101, 9162,
    9333, 3261, 8389, 9603, 2547, 3937, 9998, 794, 5486, 6640, 406, 4964, 808, 820, 5461,
    6812, 6434, 3924, 7436, 1266, 1558, 7740, 5367, 533, 3755, 5241, 8478, 9101, 294, 2579,
    762, 4345, 5089, 6613, 9733, 9119, 6173, 8742, 6195, 2253, 3209, 3379, 1178, 2838, 4813,
    3466, 7640, 5944, 2667, 3368, 2387, 1752, 8340, 2745, 1983, 5702, 557, 7946, 8929, 5978,
    4734, 4333, 4766, 7720, 3671, 9035, 69, 4747, 7486, 6897, 4017, 8595, 1890, 6196, 7255,
    2153, 8394, 8043, 8251, 7952, 9265, 9094, 814, 6287, 8567, 5387, 3910, 6704, 37, 4817,
    802, 6173, 1463, 5063, 6934, 3584, 2397, 890, 3755, 2192, 3909, 3215, 9204, 5969, 7119,
    5912, 6857, 7343, 6059, 9876, 4812, 7848, 7554, 4903, 888, 5595, 1073, 8892, 2750, 8190,
    1589, 3544, 2890, 8521, 5695, 8898, 1502, 9040, 8889, 4040, 6439, 1288, 5433, 7247, 7378,
    9815, 8925, 9484, 4149, 6381, 7247, 538, 5553, 4789, 1416, 6866, 5995, 6231, 3281, 8883,
    4259, 505, 8573, 9733, 9171, 9905, 4461, 9730, 9096, 9638, 7334, 583, 7660, 2989, 4837,
    2758, 3100, 592, 5758, 8709, 8564, 286, 3627, 8972, 8920, 7122, 1423, 682, 6862, 6402,
    5048, 7095, 4537, 222, 2471, 1158, 7221, 3856, 3626, 9129, 9002, 6208, 2921, 3478, 7519,
    7569, 1057, 8074, 2728, 1000, 8712, 1843, 8639, 256, 171, 1192, 2409, 7083, 8290, 5318,
    8332, 3939, 9759, 9081, 2296, 9790, 2231, 9823, 1513, 4741, 8422, 5034, 8748, 5473, 9840,
    8367, 8600, 5179, 7644, 2219, 8610, 9762, 1088, 227, 7916, 5348, 5747, 9937, 7189, 8890,
    3343, 4362, 5071, 1223, 817, 1702, 9506, 6975, 9085, 654, 7422, 999, 2092, 851, 8041,
    8343, 8009, 570, 2983, 7307, 4150, 6244, 4392, 4680, 6838, 210, 2524, 6570, 3320, 3776,
    6834, 1313, 2335, 3195, 9583, 2886, 4346, 373, 2422, 3094, 1475, 8507, 3819, 4814, 5255,
    8061, 5796, 675, 1289, 9763, 1674, 9317, 3579, 8912, 3136, 5262, 6376, 8975, 1679, 3596,
    829, 3728, 907, 2585, 8831, 7889, 7735, 7479, 7073, 6103, 7675, 9241, 5514, 3803, 9732,
    8675, 6107, 3562, 11, 3611, 3947, 9770, 2195, 8893, 9833, 9447, 7964, 5683, 6608, 8630,
    4503, 9466, 645, 6472, 5110, 6799, 3166, 5919, 9989, 395, 1266, 9302, 8705, 9501, 8546,
    9110, 6335, 5360, 5722, 4424, 1734, 3678, 9521, 2599, 3683, 3040, 6458, 8933, 7783, 7306,
    8517, 2799, 9774, 2330, 430, 8612, 6903, 2191, 553, 3023, 175, 1827, 7207, 5526, 802>>

\* seededRandom(seed)
seededRandom(seed) == RandTable[seed - INITIAL_SEED]

\* ------------------------------------------------------ number helpers
\* the whole grid index n as a fixed-point coordinate
Whole(n) == n * COORD_SCALE

IsWhole(x) == x % COORD_SCALE = 0

\* Math.round on a fixed-point coordinate (halves round up)
MathRound(x) == ((x + COORD_SCALE \div 2) \div COORD_SCALE) * COORD_SCALE

\* Whole rows r (near the start) for which the IEEE double computation
\* (r * 1e-4) / 1e-4 does not give back r: it falls short of r for the
\* first set and exceeds r for the second (by 5.8e-11).
INEXACT_BELOW == {369884, 369899}
INEXACT_ABOVE == {369886, 369888, 369901, 369903}

FloatErr(x) ==
  IF ~IsWhole(x) THEN 0
  ELSE IF (x \div COORD_SCALE) \in INEXACT_BELOW THEN -1
  ELSE IF (x \div COORD_SCALE) \in INEXACT_ABOVE THEN 1
  ELSE 0

\* degrees / TILE_DEGREES : a latitude or longitude to a (fractional) index
DivTile(deg) == (deg * COORD_SCALE) \div TILE_DEGREES

\* latLng[0] / TILE_DEGREES for a latitude read back from the snapshot
LatDivTile(lat) == DivTile(lat) + FloatErr(DivTile(lat))

\* index * TILE_DEGREES
TimesTile(x) == (x * TILE_DEGREES) \div COORD_SCALE

\* ------------------------------------------------------------ CacheCell
\* `${newRow},${newCol}`
cacheKey(r, c) == <<r, c>>

\* (variant: the identifier leaves out the cell)
coinIdOfSerial(r, c, index) == <<0, 0, index>>

\* `${newRow}:${newCol} serial# ${index}`
coinId(r, c, index) == <<r, c, index>>

\* new CacheCell(i, j, coinIds)
CacheCell(i, j, coinIds) == [i |-> i, j |-> j, coinIds |-> coinIds]

\* CacheCell.toMemento
toMemento(cell) == <<cell.i, cell.j, cell.coinIds>>

\* CacheCell.fromMemento
fromMemento(memento) ==
  [i |-> memento[1], j |-> memento[2], coinIds |-> memento[3]]

\* a cacheStates value that JSON.parse rejects (no memento)
Undecodable == <<>>

\* (variant: i and j are written in the other order)
createCacheStateTransposed(cell, remainingCoinIds) ==
  <<cell.j, cell.i, remainingCoinIds>>

\* createCacheState
createCacheState(cell, remainingCoinIds) ==
  <<cell.i, cell.j, remainingCoinIds>>

\* ------------------------------------------------------------ generator
\* (variant: the comparison written as <=)
ShouldSpawnInclusive(v) == v <= CACHE_SPAWN_PROBABILITY

\* nextRandom() < CACHE_SPAWN_PROBABILITY
ShouldSpawn(v) == v < CACHE_SPAWN_PROBABILITY

\* Math.floor(nextRandom() * 10 + 1)
InitialCoinOffering(v) ==
  (v * MAX_COIN_OFFERING + RAND_SCALE) \div RAND_SCALE

\* Array.from({length: n}, (_, index) => `${newRow}:${newCol} serial# ${index}`)
MintCoinIds(r, c, n) == [index \in 1..n |-> coinId(r, c, index - 1)]

\* -------------------------------------------------------- PlayerManager
\* new PlayerManager(initialRow, initialCol, initialLatLng)
PlayerManager(initialRow, initialCol, initialLatLng) ==
  [row |-> initialRow, col |-> initialCol,
   movementPath |-> <<initialLatLng>>, coins |-> <<>>]

getCurrentLatLng(p) == <<TimesTile(p.row), TimesTile(p.col)>>

\* (variant: moving drops the coins)
updatePositionDropsCoins(p, deltaRow, deltaCol) ==
  LET moved == [p EXCEPT !.row = @ + deltaRow, !.col = @ + deltaCol,
                         !.coins = <<>>]
  IN [moved EXCEPT !.movementPath = Append(@, getCurrentLatLng(moved))]

\* PlayerManager.updatePosition
updatePosition(p, deltaRow, deltaCol) ==
  LET moved == [p EXCEPT !.row = @ + deltaRow, !.col = @ + deltaCol]
  IN [moved EXCEPT !.movementPath = Append(@, getCurrentLatLng(moved))]

\* (variant: the push is left out)
addCoinNowhere(p, id) == p

\* PlayerManager.addCoin
addCoin(p, id) == [p EXCEPT !.coins = Append(@, id)]

\* (variant: the coin list is left as it is)
clearCoinsNothing(p) == p

\* PlayerManager.clearCoins
clearCoins(p) == [p EXCEPT !.coins = <<>>]

\* (variant: reset that forgets to empty the coin list)
resetKeepsCoins(p, initialRow, initialCol, initialLatLng) ==
  [p EXCEPT !.row = initialRow, !.col = initialCol,
            !.movementPath = <<initialLatLng>>]

\* PlayerManager.reset
reset(p, initialRow, initialCol, initialLatLng) ==
  [p EXCEPT !.row = initialRow, !.col = initialCol,
            !.movementPath = <<initialLatLng>>, !.coins = <<>>]

\* Math.round(OAKES_CLASSROOM.lat / TILE_DEGREES), ...lng...
InitialRow == MathRound(DivTile(OAKES_LAT))
InitialCol == MathRound(DivTile(OAKES_LNG))
InitialLatLng == <<OAKES_LAT, OAKES_LNG>>

InitialPlayerManager == PlayerManager(InitialRow, InitialCol, InitialLatLng)

\* ---------------------------------------------------------------- state
VARIABLES
  seedValue,       \* the generator counter
  cacheStates,     \* Record<string,string>: cache key -> memento
  playerManager,   \* the PlayerManager object
  popups,          \* cache markers on the map: key -> popup closure state
  playerMarker,    \* position last given to playerMarker
  geoWatchId,      \* Null or the handle of the geolocation watch
  activeWatches,   \* watches registered with the geolocation collaborator
  geolocation,     \* whether navigator.geolocation exists
  storage,         \* localStorage "gameData": NoItem or <<snapshot>>
  drawn,           \* cells for which the last updateMapView drew a decision
  visited,         \* cells covered by updateMapView since the script started
  noCache,         \* cells whose first visit since start/reset spawned nothing
  minted,          \* coin identifiers produced by updateMapView so far
  nEvents,         \* handlers run so far (sensor on/off excepted)
  nResets,         \* confirmed resets so far
  nReloads,        \* page reloads so far
  nPrompts,        \* confirm() prompts of the reset button answered so far
  uncaught,        \* an exception escaped a handler or the script since load
  prev,            \* the previous revision's state, when it is run alongside
  gv,              \* a generator value in [0,1) (generator specification)
  gPhase,          \* which draw gv was used for
  gResult          \* what the loop body made of it

vars == <<seedValue, cacheStates, playerManager, popups, playerMarker,
          geoWatchId, activeWatches, geolocation, storage,
          drawn, visited, noCache, minted,
          nEvents, nResets, nReloads, nPrompts, uncaught, prev,
          gv, gPhase, gResult>>

genVars == <<gv, gPhase, gResult>>

\* --------------------------------------------------------- updateMapView
NeighborhoodWidth == 2 * NEIGHBORHOOD_SIZE + 1

\* obj[key] = value
Put(f, key, value) ==
  [k \in DOMAIN f \cup {key} |-> IF k = key THEN value ELSE f[k]]

EmptyMap == [k \in {} |-> <<>>]

\* (variant: the popup is built for the cell one row up)
createPopupContentRowAbove(cell) ==
  [i |-> cell.i + COORD_SCALE, j |-> cell.j,
   remainingCoinIds |-> cell.coinIds]

\* The popup that createPopupContent builds for a cell: the cell's i and j
\* and the closure's private copy of its coin list.
createPopupContent(cell) ==
  [i |-> cell.i, j |-> cell.j, remainingCoinIds |-> cell.coinIds]

\* The body of the inner loop of updateMapView for the cell (newRow, newCol):
\* acc holds cacheStates, seedValue and the markers added so far; v1 and v2
\* are the values the first and the second nextRandom() call return; thrown
\* tells that an exception ended the loop.
VisitCellWith(acc, newRow, newCol, v1, v2) ==
  LET key == cacheKey(newRow, newCol)
  IN
  IF key \in DOMAIN acc.cacheStates
  THEN
    IF acc.cacheStates[key] = Undecodable
    THEN [acc EXCEPT !.thrown = TRUE]      \* JSON.parse throws in fromMemento
    ELSE
      LET cell == fromMemento(acc.cacheStates[key])
      IN [acc EXCEPT !.popups = Put(@, key, createPopupContent(cell))]
  ELSE IF ShouldSpawn(v1)
  THEN
    LET initialCoinOffering == InitialCoinOffering(v2)
        coinIds == MintCoinIds(newRow, newCol, initialCoinOffering)
        cell == CacheCell(newRow, newCol, coinIds)
    IN [acc EXCEPT !.seedValue = @ + 2,
                   !.cacheStates = Put(@, key, toMemento(cell)),
                   !.popups = Put(@, key, createPopupContent(cell)),
                   !.drawn = @ \cup {key},
                   !.spawned = @ \cup {key}]
  ELSE [acc EXCEPT !.seedValue = @ + 1, !.drawn = @ \cup {key}]

\* (variant: the coin count reuses the value of the spawn decision)
VisitCellOneValue(acc, newRow, newCol) ==
  VisitCellWith(acc, newRow, newCol,
                seededRandom(acc.seedValue + 1),
                seededRandom(acc.seedValue + 1))

\* nextRandom(): seedValue += 1; return seededRandom(seedValue)
VisitCell(acc, newRow, newCol) ==
  VisitCellWith(acc, newRow, newCol,
                seededRandom(acc.seedValue + 1),
                seededRandom(acc.seedValue + 2))

\* the generator counter is within the tabulated range
InTable(seed) == seed + 2 <= INITIAL_SEED + Len(RandTable)

\* for (colOffset = -NEIGHBORHOOD_SIZE; colOffset <= NEIGHBORHOOD_SIZE; ...)
RECURSIVE ColLoop(_, _, _, _, _)
ColLoop(acc, r, c, rowOffset, colOffset) ==
  IF colOffset > NEIGHBORHOOD_SIZE \/ ~InTable(acc.seedValue) \/ acc.thrown
  THEN acc
  ELSE LET next == VisitCell(acc, r + Whole(rowOffset), c + Whole(colOffset))
       IN IF InTable(next.seedValue)
          THEN ColLoop(next, r, c, rowOffset, colOffset + 1)
          ELSE next

\* for (rowOffset = -NEIGHBORHOOD_SIZE; rowOffset <= NEIGHBORHOOD_SIZE; ...)
RECURSIVE RowLoop(_, _, _, _)
RowLoop(acc, r, c, rowOffset) ==
  IF rowOffset > NEIGHBORHOOD_SIZE \/ ~InTable(acc.seedValue) \/ acc.thrown
  THEN acc
  ELSE LET next == ColLoop(acc, r, c, rowOffset, -NEIGHBORHOOD_SIZE)
       IN IF InTable(next.seedValue)
          THEN RowLoop(next, r, c, rowOffset + 1)
          ELSE next

\* updateMapView(): removes every cache marker, then walks the neighbourhood
\* of the player's cell in row-major order.
\* (variant: the view update starts from an empty cache record)
NoMarkersNoCaches(cs, seed) ==
  [cacheStates |-> EmptyMap, seedValue |-> seed, popups |-> EmptyMap,
   drawn |-> {}, spawned |-> {}, thrown |-> FALSE]

\* the loop's starting point: no cache marker on the map
NoMarkers(cs, seed) ==
  [cacheStates |-> cs, seedValue |-> seed, popups |-> EmptyMap,
   drawn |-> {}, spawned |-> {}, thrown |-> FALSE]

\* (variant: the neighbourhood walked lies one row ahead of the player)
updateMapViewAhead(cs, seed, p) ==
  RowLoop(NoMarkers(cs, seed), p.row + Whole(1), p.col, -NEIGHBORHOOD_SIZE)

updateMapView(cs, seed, p) ==
  RowLoop(NoMarkers(cs, seed), p.row, p.col, -NEIGHBORHOOD_SIZE)

\* the cells an updateMapView got to: each one drew or got its marker
Covered(view) == view.drawn \cup DOMAIN view.popups

\* the cells one updateMapView covers
Neighborhood(p) ==
  {cacheKey(p.row + Whole(ro), p.col + Whole(co)) :
     ro \in -NEIGHBORHOOD_SIZE..NEIGHBORHOOD_SIZE,
     co \in -NEIGHBORHOOD_SIZE..NEIGHBORHOOD_SIZE}

CoinsOf(cs, keys) ==
  UNION {{cs[k][3][n] : n \in 1..Len(cs[k][3])} : k \in keys}

\* --------------------------------------------------------- persistence
\* the object saveGameData stringifies
saveGameData(p, cs) ==
  [row |-> p.row, col |-> p.col, coins |-> p.coins,
   cacheStates |-> cs, movementPath |-> p.movementPath]

\* parsedData.movementPath?.forEach(latLng => playerManager.updatePosition(...))
RECURSIVE ReplayPath(_, _)
ReplayPath(p, path) ==
  IF path = <<>> THEN p
  ELSE LET latLng == Head(path)
       IN ReplayPath(updatePosition(p, LatDivTile(latLng[1]) - p.row,
                                       DivTile(latLng[2]) - p.col),
                     Tail(path))

\* parsedData.coins?.forEach(coinId => playerManager.addCoin(coinId))
RECURSIVE AddCoins(_, _)
AddCoins(p, ids) ==
  IF ids = <<>> THEN p ELSE AddCoins(addCoin(p, Head(ids)), Tail(ids))

\* What JSON.parse makes of a stored text: a record in which a field the
\* text lacks is absent.  The field nonArrays, when present, names the
\* fields whose value is there but is no array (a number, a string, an
\* object); Unparsable stands for a text JSON.parse rejects.
Unparsable == [unparsable |-> TRUE]

\* (variant: every field is taken for absent)
HasNever(parsedData, field) == FALSE

\* parsedData.field is not undefined
Has(parsedData, field) == field \in DOMAIN parsedData

IsNonArray(parsedData, field) ==
  Has(parsedData, "nonArrays") /\ field \in parsedData.nonArrays

\* the catch block: the error is logged, the player stays as the
\* statements before the throw left it, cacheStates was not yet assigned
LoadFailed(p) == [playerManager |-> p, cacheStates |-> EmptyMap]

\* The startup load block applied to a freshly constructed PlayerManager:
\* the player and the cacheStates it leaves.
StartupLoad(savedData) ==
  IF savedData = NoItem
  THEN [playerManager |-> InitialPlayerManager, cacheStates |-> EmptyMap]
  ELSE
    LET parsedData == savedData[1]
        cleared == clearCoins(InitialPlayerManager)
        withCoins == IF Has(parsedData, "coins")
                     THEN AddCoins(cleared, parsedData.coins)
                     ELSE cleared
        withPath == IF Has(parsedData, "movementPath")
                    THEN ReplayPath(withCoins, parsedData.movementPath)
                    ELSE withCoins
    IN
    IF Has(parsedData, "unparsable")         \* JSON.parse throws
    THEN LoadFailed(InitialPlayerManager)
    ELSE IF IsNonArray(parsedData, "coins")  \* coins.forEach is no function
    THEN LoadFailed(cleared)
    ELSE IF IsNonArray(parsedData, "movementPath")
    THEN LoadFailed(withCoins)
    ELSE [playerManager |-> withPath,
          cacheStates |-> IF Has(parsedData, "cacheStates")
                          THEN parsedData.cacheStates
                          ELSE EmptyMap]

\* ----------------------------------------------------------------- Init
\* The script run from its first line to its last: construction, the load
\* block and the startup updateMapView (nothing is saved at startup).
Startup(savedData) ==
  LET loaded == StartupLoad(savedData)
      view == updateMapView(loaded.cacheStates, INITIAL_SEED,
                            loaded.playerManager)
  IN [playerManager |-> loaded.playerManager, view |-> view]

\* the script of src/src/main.ts run without persisted data
InitScript ==
  \E s \in {Startup(NoItem)} :
     /\ seedValue = s.view.seedValue
     /\ cacheStates = s.view.cacheStates
     /\ playerManager = s.playerManager
     /\ popups = s.view.popups
     /\ playerMarker = getCurrentLatLng(s.playerManager)
     /\ geoWatchId = Null
     /\ activeWatches = {}
     /\ geolocation \in BOOLEAN
     /\ storage = NoItem
     /\ drawn = s.view.drawn
     /\ visited = Neighborhood(s.playerManager)
     /\ noCache = Neighborhood(s.playerManager) \ DOMAIN s.view.cacheStates
     /\ minted = CoinsOf(s.view.cacheStates, s.view.spawned)
     /\ nEvents = 0 /\ nResets = 0 /\ nReloads = 0 /\ nPrompts = 0
     /\ uncaught = s.view.thrown

\* (variant: the splice is left out)
SpliceNothing(s, index) == s

\* remainingCoinIds.splice(index, 1)
Splice(s, index) ==
  [n \in 1..(Len(s) - 1) |-> IF n <= index THEN s[n] ELSE s[n + 1]]

\* ---------------------------------------------- the previous revision
\* src/unnamed/part_001 keeps the player in the globals playerRow,
\* playerCol, playerCoins and movementPath.  Its seededRandom, nextRandom,
\* CacheCell, createPopupContent, createCacheState and updateMapView are
\* those of src/src/main.ts and are modelled by the same operators.  The
\* record prev holds its state when it is run alongside on the same events;
\* it is NoPrev when it is not.
NoPrev == [run |-> FALSE]

\* the object its saveGameData stringifies
PrevSaveGameData(g) ==
  [row |-> g.playerRow, col |-> g.playerCol, coins |-> g.playerCoins,
   cacheStates |-> g.cacheStates, movementPath |-> g.movementPath]

\* the globals as an updateMapView for the cell (playerRow, playerCol)
\* leaves them
PrevViewed(g, view) ==
  [g EXCEPT !.cacheStates = view.cacheStates,
            !.seedValue = view.seedValue,
            !.popups = view.popups]

\* saveGameData()
PrevSaved(g) == [g EXCEPT !.storage = <<PrevSaveGameData(g)>>]

\* the globals' initial values
PrevGlobals ==
  [run |-> TRUE,
   seedValue |-> INITIAL_SEED,
   playerCoins |-> <<>>,
   cacheStates |-> EmptyMap,
   playerRow |-> InitialRow,
   playerCol |-> InitialCol,
   movementPath |-> <<<<TimesTile(InitialRow), TimesTile(InitialCol)>>>>,
   popups |-> EmptyMap,
   storage |-> NoItem]

\* the script run without persisted data: the startup updateMapView
PrevStartup ==
  \E globals \in {PrevGlobals} :
  \E cell \in {[row |-> globals.playerRow, col |-> globals.playerCol]} :
  \E view \in {updateMapView(globals.cacheStates, globals.seedValue, cell)} :
     prev = PrevViewed(globals, view)

\* updateMapView(); saveGameData() with the globals g
PrevViewAndSave(g) ==
  \E globals \in {g} :
  \E cell \in {[row |-> globals.playerRow, col |-> globals.playerCol]} :
  \E view \in {updateMapView(globals.cacheStates, globals.seedValue, cell)} :
     prev' = PrevSaved(PrevViewed(globals, view))

\* (variant: the deltas are added to the other index)
movePlayerPositionTransposed(g, deltaX, deltaY) ==
  LET moved == [g EXCEPT !.playerRow = @ + Whole(deltaX),
                         !.playerCol = @ + Whole(deltaY)]
  IN [moved EXCEPT !.movementPath =
        Append(@, <<TimesTile(moved.playerRow), TimesTile(moved.playerCol)>>)]

\* movePlayerPosition(deltaX, deltaY)
movePlayerPosition(g, deltaX, deltaY) ==
  LET moved == [g EXCEPT !.playerRow = @ + Whole(deltaY),
                         !.playerCol = @ + Whole(deltaX)]
  IN [moved EXCEPT !.movementPath =
        Append(@, <<TimesTile(moved.playerRow), TimesTile(moved.playerCol)>>)]

\* its movePlayer(deltaX, deltaY)
PrevMovePlayer(deltaX, deltaY) ==
  PrevViewAndSave(movePlayerPosition(prev, deltaX, deltaY))

\* its watchPosition success callback
PrevGeoUpdate(latitude, longitude) ==
  PrevViewAndSave(
    [prev EXCEPT !.playerRow = MathRound(DivTile(latitude)),
                 !.playerCol = MathRound(DivTile(longitude)),
                 !.movementPath = Append(@, <<latitude, longitude>>)])

\* its collect listener, for the button collect-i-j-index of the popup at
\* key (no such button: nothing happens)
PrevCollect(key, index) ==
  IF key \in DOMAIN prev.popups
       /\ index < Len(prev.popups[key].remainingCoinIds)
  THEN LET popup == prev.popups[key]
           remainingCoinIds == Splice(popup.remainingCoinIds, index)
       IN prev' = PrevSaved(
            [prev EXCEPT
               !.playerCoins = Append(@, popup.remainingCoinIds[index + 1]),
               !.popups[key].remainingCoinIds = remainingCoinIds,
               !.cacheStates =
                  Put(@, cacheKey(popup.i, popup.j),
                      createCacheState(popup, remainingCoinIds))])
  ELSE UNCHANGED prev

\* its deposit listener, for the popup at key
PrevDeposit(key) ==
  IF key \in DOMAIN prev.popups /\ Len(prev.playerCoins) > 0
  THEN LET popup == prev.popups[key]
           remainingCoinIds == popup.remainingCoinIds \o prev.playerCoins
       IN prev' = PrevSaved(
            [prev EXCEPT
               !.playerCoins = <<>>,
               !.popups[key].remainingCoinIds = remainingCoinIds,
               !.cacheStates =
                  Put(@, cacheKey(popup.i, popup.j),
                      createCacheState(popup, remainingCoinIds))])
  ELSE UNCHANGED prev

\* its resetGameState() when the prompt is accepted
PrevResetGameState ==
  PrevViewAndSave(
    [prev EXCEPT !.playerRow = InitialRow,
                 !.playerCol = InitialCol,
                 !.playerCoins = <<>>,
                 !.cacheStates = EmptyMap,
                 !.movementPath =
                    <<<<TimesTile(InitialRow), TimesTile(InitialCol)>>>>])

\* the previous revision, when run alongside, handles the same event
AlsoPrev(handler) == IF prev.run THEN handler ELSE UNCHANGED prev

InitSession ==
  /\ InitScript
  /\ prev = NoPrev

Init ==
  /\ InitSession
  /\ gv = 0
  /\ gPhase = "idle"
  /\ gResult = NoMarkers(EmptyMap, INITIAL_SEED)

\* -------------------------------------------------------------- actions
\* What every handler that ends in updateMapView(); saveGameData() leaves,
\* for the player p it moved to; an exception in updateMapView ends the
\* handler before saveGameData.
ViewAndSave(p) ==
  \E view \in {updateMapView(cacheStates, seedValue, p)} :
     /\ playerManager' = p
     /\ seedValue' = view.seedValue
     /\ cacheStates' = view.cacheStates
     /\ popups' = view.popups
     /\ storage' = IF view.thrown THEN storage
                   ELSE <<saveGameData(p, view.cacheStates)>>
     /\ uncaught' = (uncaught \/ view.thrown)
     /\ drawn' = view.drawn
     /\ visited' = visited \cup Covered(view)
     /\ noCache' = noCache \cup
                   ((Covered(view) \ visited) \ DOMAIN view.cacheStates)
     /\ minted' = minted \cup CoinsOf(view.cacheStates, view.spawned)

\* (variant: the deltas are handed to updatePosition in the other order)
movePlayerTransposed(deltaX, deltaY) ==
  /\ UNCHANGED genVars
  /\ nEvents < MaxEvents
  /\ \E p \in {updatePosition(playerManager, Whole(deltaX), Whole(deltaY))} :
        /\ playerMarker' = getCurrentLatLng(p)
        /\ ViewAndSave(p)
  /\ nEvents' = nEvents + 1
  /\ UNCHANGED <<geoWatchId, activeWatches, geolocation,
                 nResets, nReloads, nPrompts>>
  /\ AlsoPrev(PrevMovePlayer(deltaX, deltaY))

\* (variant: rows count downwards, as on a screen)
movePlayerScreenRows(deltaX, deltaY) ==
  /\ UNCHANGED genVars
  /\ nEvents < MaxEvents
  /\ \E p \in {updatePosition(playerManager, Whole(-deltaY), Whole(deltaX))} :
        /\ playerMarker' = getCurrentLatLng(p)
        /\ ViewAndSave(p)
  /\ nEvents' = nEvents + 1
  /\ UNCHANGED <<geoWatchId, activeWatches, geolocation,
                 nResets, nReloads, nPrompts>>
  /\ AlsoPrev(PrevMovePlayer(deltaX, deltaY))

\* movePlayer(deltaX, deltaY), called by the four direction buttons
movePlayer(deltaX, deltaY) ==
  /\ UNCHANGED genVars
  /\ nEvents < MaxEvents
  /\ \E p \in {updatePosition(playerManager, Whole(deltaY), Whole(deltaX))} :
        /\ playerMarker' = getCurrentLatLng(p)
        /\ ViewAndSave(p)
  /\ nEvents' = nEvents + 1
  /\ UNCHANGED <<geoWatchId, activeWatches, geolocation,
                 nResets, nReloads, nPrompts>>
  /\ AlsoPrev(PrevMovePlayer(deltaX, deltaY))

North == movePlayer(0, 1)
South == movePlayer(0, -1)
East == movePlayer(1, 0)
West == movePlayer(-1, 0)

\* positions the geolocation collaborator reports (units of 1e-5 degree)
GeoFixes ==
  {<<OAKES_LAT, OAKES_LNG>>,
   <<OAKES_LAT - TILE_DEGREES, OAKES_LNG + TILE_DEGREES>>}

\* the success callback given to watchPosition
GeoUpdate(latitude, longitude) ==
  /\ UNCHANGED genVars
  /\ activeWatches # {}
  /\ nEvents < MaxEvents
  /\ LET newRow == MathRound(DivTile(latitude))
         newCol == MathRound(DivTile(longitude))
         deltaRow == newRow - playerManager.row
         deltaCol == newCol - playerManager.col
         p == updatePosition(playerManager, deltaRow, deltaCol)
     IN /\ playerMarker' = getCurrentLatLng(p)
        /\ ViewAndSave(p)
  /\ nEvents' = nEvents + 1
  /\ UNCHANGED <<geoWatchId, activeWatches, geolocation,
                 nResets, nReloads, nPrompts>>
  /\ AlsoPrev(PrevGeoUpdate(latitude, longitude))

\* the popups the player opens: those of caches at most MaxReach cells away
InReach(key) ==
  /\ key[1] - playerManager.row \in Whole(-MaxReach)..Whole(MaxReach)
  /\ key[2] - playerManager.col \in Whole(-MaxReach)..Whole(MaxReach)

\* click on the button collect-i-j-index of the popup at key
Collect(key, index) ==
  /\ UNCHANGED genVars
  /\ nEvents < MaxEvents
  /\ key \in DOMAIN popups
  /\ InReach(key)
  /\ index < Len(popups[key].remainingCoinIds)
  /\ LET popup == popups[key]
         id == popup.remainingCoinIds[index + 1]
         p == addCoin(playerManager, id)
         remainingCoinIds == Splice(popup.remainingCoinIds, index)
         cs == Put(cacheStates, cacheKey(popup.i, popup.j),
                   createCacheState(popup, remainingCoinIds))
     IN /\ playerManager' = p
        /\ popups' = [popups EXCEPT
                        ![key].remainingCoinIds = remainingCoinIds]
        /\ cacheStates' = cs
        /\ storage' = <<saveGameData(p, cs)>>
  /\ nEvents' = nEvents + 1
  /\ UNCHANGED <<seedValue, playerMarker, geoWatchId, activeWatches,
                 geolocation, drawn, visited, noCache, minted,
                 nResets, nReloads, nPrompts, uncaught>>
  /\ AlsoPrev(PrevCollect(key, index))

\* click on the deposit button of the popup at key
Deposit(key) ==
  /\ UNCHANGED genVars
  /\ nEvents < MaxEvents
  /\ key \in DOMAIN popups
  /\ InReach(key)
  /\ IF Len(playerManager.coins) > 0
     THEN LET popup == popups[key]
              remainingCoinIds ==
                popup.remainingCoinIds \o playerManager.coins
              p == clearCoins(playerManager)
              cs == Put(cacheStates, cacheKey(popup.i, popup.j),
                        createCacheState(popup, remainingCoinIds))
          IN /\ playerManager' = p
             /\ popups' = [popups EXCEPT
                             ![key].remainingCoinIds = remainingCoinIds]
             /\ cacheStates' = cs
             /\ storage' = <<saveGameData(p, cs)>>
             /\ nEvents' = nEvents + 1
     ELSE /\ nEvents' = nEvents + 1      \* the listener's if is skipped
          /\ UNCHANGED <<playerManager, popups, cacheStates, storage>>
  /\ UNCHANGED <<seedValue, playerMarker, geoWatchId, activeWatches,
                 geolocation, drawn, visited, noCache, minted,
                 nResets, nReloads, nPrompts, uncaught>>
  /\ AlsoPrev(PrevDeposit(key))

\* (variant: the reset also sets the generator counter back)
ResetConfirmedReseeds ==
  /\ UNCHANGED genVars
  /\ nEvents < MaxEvents
  /\ \E p \in {reset(playerManager, InitialRow, InitialCol, InitialLatLng)} :
     \E view \in {updateMapView(EmptyMap, INITIAL_SEED, p)} :
        /\ playerManager' = p
        /\ seedValue' = view.seedValue
        /\ cacheStates' = view.cacheStates
        /\ popups' = view.popups
        /\ storage' = <<saveGameData(p, view.cacheStates)>>
        /\ drawn' = view.drawn
        /\ visited' = Neighborhood(p)
        /\ noCache' = Neighborhood(p) \ DOMAIN view.cacheStates
        /\ minted' = minted \cup CoinsOf(view.cacheStates, view.spawned)
  /\ nResets' = nResets + 1
  /\ nPrompts' = nPrompts + 1
  /\ nEvents' = nEvents + 1
  /\ UNCHANGED <<playerMarker, geoWatchId, activeWatches, geolocation,
                 nReloads, uncaught>>
  /\ AlsoPrev(PrevResetGameState)

\* resetGameState() when the confirm() prompt is accepted
ResetConfirmed ==
  /\ UNCHANGED genVars
  /\ nEvents < MaxEvents
  /\ \E p \in {reset(playerManager, InitialRow, InitialCol, InitialLatLng)} :
     \E view \in {updateMapView(EmptyMap, seedValue, p)} :
        /\ playerManager' = p
        /\ seedValue' = view.seedValue
        /\ cacheStates' = view.cacheStates
        /\ popups' = view.popups
        /\ storage' = <<saveGameData(p, view.cacheStates)>>
        /\ drawn' = view.drawn
        /\ visited' = Neighborhood(p)
        /\ noCache' = Neighborhood(p) \ DOMAIN view.cacheStates
        /\ minted' = minted \cup CoinsOf(view.cacheStates, view.spawned)
  /\ nResets' = nResets + 1
  /\ nPrompts' = nPrompts + 1
  /\ nEvents' = nEvents + 1
  /\ UNCHANGED <<playerMarker, geoWatchId, activeWatches, geolocation,
                 nReloads, uncaught>>
  /\ AlsoPrev(PrevResetGameState)

\* (variant: the caches are emptied before the prompt is answered)
ResetDeclinedClearsCaches ==
  /\ UNCHANGED genVars
  /\ UNCHANGED prev
  /\ nEvents < MaxEvents
  /\ nPrompts' = nPrompts + 1
  /\ nEvents' = nEvents + 1
  /\ cacheStates' = EmptyMap
  /\ UNCHANGED <<seedValue, playerManager, popups, playerMarker,
                 geoWatchId, activeWatches, geolocation, storage, drawn,
                 visited, noCache, minted, nResets, nReloads, uncaught>>

\* resetGameState() when the confirm() prompt is declined: the body of the
\* if is skipped
ResetDeclined ==
  /\ UNCHANGED genVars
  /\ UNCHANGED prev
  /\ nEvents < MaxEvents
  /\ nPrompts' = nPrompts + 1
  /\ nEvents' = nEvents + 1
  /\ UNCHANGED <<seedValue, cacheStates, playerManager, popups, playerMarker,
                 geoWatchId, activeWatches, geolocation, storage, drawn,
                 visited, noCache, minted, nResets, nReloads, uncaught>>

\* the handle watchPosition returns: one no active watch has
NewWatchId == CHOOSE id \in 1..(Cardinality(activeWatches) + 1) :
                id \notin activeWatches

\* (variant: starting does not look whether the collaborator is there)
toggleGeolocationUnguarded ==
  /\ UNCHANGED genVars
  /\ UNCHANGED prev
  /\ IF geoWatchId # Null
     THEN /\ activeWatches' = activeWatches \ {geoWatchId}
          /\ geoWatchId' = Null
     ELSE /\ geoWatchId' = NewWatchId
          /\ activeWatches' = activeWatches \cup {NewWatchId}
  /\ UNCHANGED <<seedValue, cacheStates, playerManager, popups,
                 playerMarker, geolocation, storage, drawn, visited,
                 noCache, minted, nEvents, nResets, nReloads, nPrompts, uncaught>>

\* (variant: stopping clears the handle but leaves the watch registered)
toggleGeolocationLeavesWatch ==
  /\ UNCHANGED genVars
  /\ UNCHANGED prev
  /\ IF geoWatchId # Null
     THEN /\ activeWatches' = activeWatches
          /\ geoWatchId' = Null
          /\ UNCHANGED nEvents
     ELSE IF ~geolocation
     THEN /\ nEvents < MaxEvents
          /\ nEvents' = nEvents + 1
          /\ UNCHANGED <<geoWatchId, activeWatches>>
     ELSE /\ geoWatchId' = NewWatchId
          /\ activeWatches' = activeWatches \cup {NewWatchId}
          /\ UNCHANGED nEvents
  /\ UNCHANGED <<seedValue, cacheStates, playerManager, popups,
                 playerMarker, geolocation, storage, drawn, visited,
                 noCache, minted, nResets, nReloads, nPrompts, uncaught>>

\* toggleGeolocation(): stopGeolocationTracking or startGeolocationTracking
\* (a click that finds no geolocation collaborator is counted as an event)
toggleGeolocation ==
  /\ UNCHANGED genVars
  /\ UNCHANGED prev
  /\ IF geoWatchId # Null
     THEN /\ activeWatches' = activeWatches \ {geoWatchId}
          /\ geoWatchId' = Null
          /\ UNCHANGED nEvents
     ELSE IF ~geolocation
     THEN /\ nEvents < MaxEvents
          /\ nEvents' = nEvents + 1
          /\ UNCHANGED <<geoWatchId, activeWatches>>
     ELSE /\ geoWatchId' = NewWatchId
          /\ activeWatches' = activeWatches \cup {NewWatchId}
          /\ UNCHANGED nEvents
  /\ UNCHANGED <<seedValue, cacheStates, playerManager, popups,
                 playerMarker, geolocation, storage, drawn, visited,
                 noCache, minted, nResets, nReloads, nPrompts, uncaught>>

\* The page is loaded again: the script runs anew on the saved snapshot.
Reload ==
  /\ UNCHANGED genVars
  /\ UNCHANGED prev
  /\ nEvents < MaxEvents
  /\ \E s \in {Startup(storage)} :
        /\ seedValue' = s.view.seedValue
        /\ cacheStates' = s.view.cacheStates
        /\ playerManager' = s.playerManager
        /\ popups' = s.view.popups
        /\ playerMarker' = getCurrentLatLng(s.playerManager)
        /\ drawn' = s.view.drawn
        /\ visited' = Covered(s.view)
        /\ noCache' = Covered(s.view) \ DOMAIN s.view.cacheStates
        /\ uncaught' = s.view.thrown
        /\ minted' = minted \cup CoinsOf(s.view.cacheStates, s.view.spawned)
  /\ geoWatchId' = Null
  /\ activeWatches' = {}
  /\ nReloads' = nReloads + 1
  /\ nEvents' = nEvents + 1
  /\ UNCHANGED <<geolocation, storage, nResets, nPrompts>>

\* The loop body applied to one unseen cell with gv as the spawn draw
DrawDecision ==
  /\ gPhase = "idle"
  /\ gPhase' = "decision"
  /\ gResult' = VisitCellWith(gResult, InitialRow, InitialCol, gv, 0)
  /\ UNCHANGED <<seedValue, cacheStates, playerManager, popups, playerMarker,
                 geoWatchId, activeWatches, geolocation, storage, drawn,
                 visited, noCache, minted, nEvents, nResets, nReloads, nPrompts,
                 uncaught, prev, gv>>

\* The loop body applied to one unseen cell that spawns, with gv as the
\* coin-count draw
DrawOffering ==
  /\ gPhase = "idle"
  /\ gPhase' = "offering"
  /\ gResult' = VisitCellWith(gResult, InitialRow, InitialCol, 0, gv)
  /\ UNCHANGED <<seedValue, cacheStates, playerManager, popups, playerMarker,
                 geoWatchId, activeWatches, geolocation, storage, drawn,
                 visited, noCache, minted, nEvents, nResets, nReloads, nPrompts,
                 uncaught, prev, gv>>

\* ----------------------------------------------------- stored documents
\* The snapshot the collect listener of the popup at key writes for its
\* first coin, with the player p and the map as updateMapView left it.
SavedGameOf(p, view, key) ==
  LET popup == view.popups[key]
  IN saveGameData(
       addCoin(p, popup.remainingCoinIds[1]),
       Put(view.cacheStates, cacheKey(popup.i, popup.j),
           createCacheState(popup, Splice(popup.remainingCoinIds, 0))))

\* the document without some of its fields
Without(doc, fields) == [f \in DOMAIN doc \ fields |-> doc[f]]

\* the document with values that are no arrays in the place of some fields
WithNonArray(doc, fields) ==
  [f \in (DOMAIN doc \ fields) \cup {"nonArrays"} |->
     IF f = "nonArrays" THEN fields ELSE doc[f]]

\* the document with a cacheStates entry that is no memento, for the cell
\* offset rows north of the saved player
WithBadEntry(doc, offset) ==
  [doc EXCEPT !.cacheStates =
     Put(@, cacheKey(doc.row + Whole(offset), doc.col), Undecodable)]

OptionalFields == {"coins", "movementPath", "cacheStates"}

\* The ways a stored document differs from what saveGameData wrote: text
\* that is no JSON; a non-array in the place of coins or of movementPath; an
\* undecodable cache entry inside the restored player's first view or just
\* north of it; any of the fields the load block reads left out (none left
\* out: the document as written).
Damages ==
  {[kind |-> "unparsable", fields |-> {}, offset |-> 0]}
    \cup {[kind |-> "nonArray", fields |-> {f}, offset |-> 0] :
            f \in {"coins", "movementPath"}}
    \cup {[kind |-> "badEntry", fields |-> {}, offset |-> o] :
            o \in {NEIGHBORHOOD_SIZE, NEIGHBORHOOD_SIZE + 1}}
    \cup {[kind |-> "without", fields |-> m, offset |-> 0] :
            m \in SUBSET OptionalFields}

Damaged(doc, damage) ==
  CASE damage.kind = "unparsable" -> Unparsable
    [] damage.kind = "nonArray" -> WithNonArray(doc, damage.fields)
    [] damage.kind = "badEntry" -> WithBadEntry(doc, damage.offset)
    [] damage.kind = "without" -> Without(doc, damage.fields)

\* The page opened on a stored document: a fresh session stepped north,
\* collected the first coin of a cache next to the player and was closed;
\* the document it wrote, damaged in one of the ways above, is what the
\* script has now run on.
Restored(damages) ==
  \E fresh \in {Startup(NoItem)} :
  \E p \in {updatePosition(fresh.playerManager, Whole(1), 0)} :
  \E view \in {updateMapView(fresh.view.cacheStates,
                               fresh.view.seedValue, p)} :
  \E key \in {CHOOSE k \in DOMAIN view.popups :
                 /\ k[1] - p.row \in Whole(-1)..Whole(1)
                 /\ k[2] - p.col \in Whole(-1)..Whole(1)
                 /\ Len(view.popups[k].remainingCoinIds) > 0} :
  \E saved \in {SavedGameOf(p, view, key)} :
  \E damage \in damages :
  \E doc \in {Damaged(saved, damage)} :
  \E s \in {Startup(<<doc>>)} :
     /\ seedValue = s.view.seedValue
     /\ cacheStates = s.view.cacheStates
     /\ playerManager = s.playerManager
     /\ popups = s.view.popups
     /\ playerMarker = getCurrentLatLng(s.playerManager)
     /\ geoWatchId = Null
     /\ activeWatches = {}
     /\ geolocation \in BOOLEAN
     /\ storage = <<doc>>
     /\ drawn = s.view.drawn
     /\ visited = Covered(s.view)
     /\ noCache = Covered(s.view) \ DOMAIN s.view.cacheStates
     /\ minted = CoinsOf(s.view.cacheStates, s.view.spawned)
     /\ nEvents = 0 /\ nResets = 0 /\ nReloads = 0 /\ nPrompts = 0
     /\ uncaught = s.view.thrown
     /\ prev = NoPrev
     /\ gv = 0
     /\ gPhase = "idle"
     /\ gResult = NoMarkers(EmptyMap, INITIAL_SEED)

InitRestore == Restored(Damages)

\* the page opened on the document as written or on one that lacks the
\* coins field (the player starts with one coin or with none)
InitCoins ==
  Restored({damage \in Damages :
              damage.kind = "without" /\ damage.fields \subseteq {"coins"}})

\* ------------------------------------------------------- specifications
Play ==
  \/ North
  \/ South
  \/ East
  \/ West
  \/ \E fix \in GeoFixes : GeoUpdate(fix[1], fix[2])
  \/ \E key \in DOMAIN popups : \E index \in 0..(MaxCollectIndex - 1) :
       Collect(key, index)
  \/ \E key \in DOMAIN popups : Deposit(key)
  \/ toggleGeolocation

Session ==
  \/ Play
  \/ ResetConfirmed
  \/ ResetDeclined

Next ==
  \/ Session
  \/ Reload

\* every event of a session, page reloads included
Spec == Init /\ [][Next]_vars

\* one session started without persisted data
SpecSession == Init /\ [][Session]_vars

\* one session without reset and without reload
SpecPlay == Init /\ [][Play]_vars

\* the generator's two uses, for every value it can return
InitGen ==
  /\ InitSession
  /\ gv \in 0..(RAND_SCALE - 1)
  /\ gPhase = "idle"
  /\ gResult = NoMarkers(EmptyMap, INITIAL_SEED)

NextGen ==
  \/ DrawDecision
  \/ DrawOffering

SpecGen == InitGen /\ [][NextGen]_vars

\* the page opened on a stored document, then the direction buttons
Moves ==
  \/ North
  \/ South
  \/ East
  \/ West

SpecRestore == InitRestore /\ [][Moves]_vars

\* a session in which only the direction buttons, the sensor button and
\* the geolocation collaborator act
Sensor ==
  \/ Moves
  \/ \E fix \in GeoFixes : GeoUpdate(fix[1], fix[2])
  \/ toggleGeolocation

SpecSensor == Init /\ [][Sensor]_vars

\* a session in which only the direction buttons and the reset button act
Walk ==
  \/ Moves
  \/ ResetConfirmed
  \/ ResetDeclined

SpecWalk == Init /\ [][Walk]_vars

\* the page opened on a stored document, then the buttons of the popups
Coins ==
  \/ \E key \in DOMAIN popups : \E index \in 0..(MaxCollectIndex - 1) :
       Collect(key, index)
  \/ \E key \in DOMAIN popups : Deposit(key)

SpecCoins == InitCoins /\ [][Coins]_vars

\* Both revisions started without persisted data, the sensor button
\* clicked once (the watch is registered), and given the same events from
\* then on.
InitRevisions ==
  \E s \in {Startup(NoItem)} :
     /\ seedValue = s.view.seedValue
     /\ cacheStates = s.view.cacheStates
     /\ playerManager = s.playerManager
     /\ popups = s.view.popups
     /\ playerMarker = getCurrentLatLng(s.playerManager)
     /\ geoWatchId = 1
     /\ activeWatches = {1}
     /\ geolocation = TRUE
     /\ storage = NoItem
     /\ drawn = s.view.drawn
     /\ visited = Neighborhood(s.playerManager)
     /\ noCache = Neighborhood(s.playerManager) \ DOMAIN s.view.cacheStates
     /\ minted = CoinsOf(s.view.cacheStates, s.view.spawned)
     /\ nEvents = 0 /\ nResets = 0 /\ nReloads = 0 /\ nPrompts = 0
     /\ uncaught = s.view.thrown
     /\ PrevStartup
     /\ gv = 0
     /\ gPhase = "idle"
     /\ gResult = NoMarkers(EmptyMap, INITIAL_SEED)

\* the events the two revisions are compared on
Events ==
  \/ Moves
  \/ \E fix \in GeoFixes : GeoUpdate(fix[1], fix[2])
  \/ \E key \in DOMAIN popups : \E index \in 0..(MaxCollectIndex - 1) :
       Collect(key, index)
  \/ \E key \in DOMAIN popups : Deposit(key)
  \/ ResetConfirmed

SpecRevisions == InitRevisions /\ [][Events]_vars

\* ================================================================ claims
\* every coin identifier some holder has
AllHeld ==
  {playerManager.coins[n] : n \in 1..Len(playerManager.coins)}
    \cup CoinsOf(cacheStates, DOMAIN cacheStates)

\* every place of every recorded cache's coin list
CacheSlots ==
  UNION {{<<k, n>> : n \in 1..Len(cacheStates[k][3])} : k \in DOMAIN cacheStates}

\* C1: without reset, every minted coin identifier occurs exactly once in the
\* player's coin list together with the coin lists of all recorded caches
\* (the holders hold exactly the minted identifiers, in as many places as
\* there are identifiers).
C1_CoinConservation ==
  /\ AllHeld = minted
  /\ Len(playerManager.coins) + Cardinality(CacheSlots) = Cardinality(minted)

\* a coin lies in a cache other than the one it was minted for
C1_Witness ==
  \E k \in DOMAIN cacheStates : \E n \in 1..Len(cacheStates[k][3]) :
    <<cacheStates[k][3][n][1], cacheStates[k][3][n][2]>> # k

\* C2: saving the live state and running the startup load on that snapshot
\* gives back the same caches, player coordinate, coins and movement path.
C2_SaveLoadRoundTrip ==
  LET loaded == StartupLoad(<<saveGameData(playerManager, cacheStates)>>)
  IN /\ loaded.cacheStates = cacheStates
     /\ loaded.playerManager.row = playerManager.row
     /\ loaded.playerManager.col = playerManager.col
     /\ loaded.playerManager.coins = playerManager.coins
     /\ loaded.playerManager.movementPath = playerManager.movementPath

\* C3: the startup load of a snapshot the program saved leaves the player on
\* whole grid indices, equal to the snapshot's row and col.
C3_LoadedPositionIsWhole ==
  storage # NoItem =>
    LET p == StartupLoad(storage).playerManager
    IN /\ IsWhole(p.row) /\ IsWhole(p.col)
       /\ p.row = storage[1].row
       /\ p.col = storage[1].col

\* C4: whenever the generator counter advances, it is not for a cell an
\* earlier updateMapView already covered.
C4_NoDrawOnRevisit ==
  [][seedValue' # seedValue => drawn' \cap visited = {}]_vars

\* C5: a cell whose first visit spawned nothing has no cache later (until
\* the next reset).
C5_NoCacheIsTerminal == noCache \cap DOMAIN cacheStates = {}

\* a collect or a deposit at the popup of key
CoinOpAt(key) ==
  \/ \E index \in 0..(MaxCollectIndex - 1) : Collect(key, index)
  \/ Deposit(key)

\* C6: without reset, a recorded cache stays recorded in the next state
\* (also with zero coins), and its memento changes only by a collect or a
\* deposit at its own coordinate.
C6_CachePersists ==
  [][\A k \in DOMAIN cacheStates :
       /\ k \in DOMAIN cacheStates'
       /\ cacheStates'[k] # cacheStates[k] => CoinOpAt(k)]_vars

\* a recorded cache all of whose coins were collected
C6_Witness ==
  \E k \in DOMAIN cacheStates : cacheStates[k][3] = <<>>

\* the caches of a session just started without persisted data
FreshWorld == Startup(NoItem).view.cacheStates

\* C7: a confirmed reset leaves the caches of a freshly started session.
C7_ResetRepopulatesAsFresh ==
  [][nResets' = nResets + 1 => cacheStates' = FreshWorld]_vars

\* the player a confirmed reset leaves: start cell, one path entry, no coins
PlayerIsReset(p) ==
  /\ p.row = InitialRow
  /\ p.col = InitialCol
  /\ p.coins = <<>>
  /\ p.movementPath = <<InitialLatLng>>

\* C8 (as claimed): after a confirmed reset the player is at the start with
\* no coins and a one-entry path, and no cache recorded before the reset has
\* its pre-reset contents.
C8_ResetLeavesNoOldContents ==
  [][nResets' = nResets + 1 =>
       /\ PlayerIsReset(playerManager')
       /\ \A k \in DOMAIN cacheStates :
            k \notin DOMAIN cacheStates' \/ cacheStates'[k] # cacheStates[k]]_vars

\* the memento of a cache at key that holds its own full batch, as minted
IsFreshBatch(key, memento) ==
  /\ memento[1] = key[1]
  /\ memento[2] = key[2]
  /\ Len(memento[3]) \in 1..MAX_COIN_OFFERING
  /\ memento[3] = MintCoinIds(key[1], key[2], Len(memento[3]))

\* C8 (amended): after a confirmed reset the player is at the start with no
\* coins and a one-entry path, and every recorded cache holds exactly the
\* batch just minted for its own coordinate.
C8_ResetLeavesFreshBatches ==
  [][nResets' = nResets + 1 =>
       /\ PlayerIsReset(playerManager')
       /\ \A k \in DOMAIN cacheStates' : IsFreshBatch(k, cacheStates'[k])]_vars

\* a reset has run: the player is back at the start and coins minted
\* before it are with no holder any more
C8_Witness ==
  /\ nResets > 0
  /\ PlayerIsReset(playerManager)
  /\ minted \ AllHeld # {}

GenKey == cacheKey(InitialRow, InitialCol)

\* C10: a cell spawns a cache exactly when its draw is strictly below the
\* spawn probability, and a spawned cache starts with 1 to 10 coins whatever
\* the second draw is.
C10_SpawnBounds ==
  /\ gPhase = "decision" =>
       (GenKey \in DOMAIN gResult.cacheStates <=> gv < CACHE_SPAWN_PROBABILITY)
  /\ gPhase = "offering" =>
       /\ GenKey \in DOMAIN gResult.cacheStates
       /\ Len(gResult.cacheStates[GenKey][3]) >= 1
       /\ Len(gResult.cacheStates[GenKey][3]) <= 10

\* the draw equals the spawn probability and nothing spawned
C10_Witness ==
  /\ gPhase = "decision"
  /\ gv = CACHE_SPAWN_PROBABILITY
  /\ GenKey \notin DOMAIN gResult.cacheStates

\* the identifiers the updateMapView of this step minted: those of the
\* caches at cells it drew a decision for
MintedNow == CoinsOf(cacheStates', drawn' \cap DOMAIN cacheStates')

\* C11 (as claimed): a mint never produces an identifier that was minted
\* before, resets included.
C11_NoCoinMintedTwice ==
  [][seedValue' # seedValue => MintedNow \cap minted = {}]_vars

\* C11 (amended): a mint never produces an identifier that the player or a
\* cache holds at that moment (a reset first discards every coin), and the
\* identifiers in existence are pairwise distinct: each occurs in one place.
C11_NoHeldCoinMintedAgain ==
  [][/\ (seedValue' # seedValue /\ nResets' = nResets) =>
          MintedNow \cap AllHeld = {}
     /\ Len(playerManager'.coins) + Cardinality(CacheSlots')
          = Cardinality(AllHeld')]_vars

\* a view update after the first one has minted coins, and no reset ran
C11_Witness ==
  /\ nResets = 0
  /\ nReloads = 0
  /\ \E id \in minted : cacheKey(id[1], id[2]) \notin DOMAIN FreshWorld

\* the list s without its element at the 0-based place index
WithoutPlace(s, index) ==
  SubSeq(s, 1, index) \o SubSeq(s, index + 2, Len(s))

\* C12: a collect takes the coin at the chosen place of the cache's current
\* coin list, leaves the rest of that list in order, appends the coin to the
\* player's coins and touches no other cache; collect buttons exist only
\* for coins currently in the cache (every popup lists exactly its cache's
\* coins), and the player's coin list never grows by any other step.
C12_CollectMovesOneCoin ==
  [][/\ \A key \in DOMAIN popups : \A index \in 0..(MaxCollectIndex - 1) :
          Collect(key, index) =>
            /\ key \in DOMAIN cacheStates
            /\ popups[key].remainingCoinIds = cacheStates[key][3]
            /\ index < Len(cacheStates[key][3])
            /\ playerManager'.coins =
                 Append(playerManager.coins, cacheStates[key][3][index + 1])
            /\ DOMAIN cacheStates' = DOMAIN cacheStates
            /\ cacheStates'[key][3] = WithoutPlace(cacheStates[key][3], index)
            /\ \A k \in DOMAIN cacheStates \ {key} :
                 cacheStates'[k] = cacheStates[k]
     /\ Len(playerManager'.coins) > Len(playerManager.coins) =>
          \E key \in DOMAIN popups : \E index \in 0..(MaxCollectIndex - 1) :
            Collect(key, index)
     /\ \A key \in DOMAIN popups' :
          /\ key \in DOMAIN cacheStates'
          /\ popups'[key].remainingCoinIds = cacheStates'[key][3]]_vars

\* the player holds a coin whose home cache is recorded without it
C12_Witness ==
  \E n \in 1..Len(playerManager.coins) :
    LET id == playerManager.coins[n]
        home == cacheKey(id[1], id[2])
    IN /\ home \in DOMAIN cacheStates
       /\ \A m \in 1..Len(cacheStates[home][3]) : cacheStates[home][3][m] # id

\* C13: a deposit button exists only on the popup of a recorded cache, the
\* popup writes to that cache's own key, and a deposit leaves the set of
\* coordinates with a recorded cache as it was.
C13_DepositNeverCreatesCache ==
  [][\A key \in DOMAIN popups :
       Deposit(key) =>
         /\ key \in DOMAIN cacheStates
         /\ cacheKey(popups[key].i, popups[key].j) = key
         /\ DOMAIN cacheStates' = DOMAIN cacheStates]_vars

\* a deposit has emptied the player's coin list into a cache: the cache's
\* list ends with a coin minted elsewhere and the player holds nothing
C13_Witness ==
  /\ playerManager.coins = <<>>
  /\ \E k \in DOMAIN cacheStates :
       /\ Len(cacheStates[k][3]) > 0
       /\ LET id == cacheStates[k][3][Len(cacheStates[k][3])]
          IN cacheKey(id[1], id[2]) # k

\* the startup load block ends in its catch clause
DecodeFails(parsedData) ==
  \/ Has(parsedData, "unparsable")
  \/ IsNonArray(parsedData, "coins")
  \/ IsNonArray(parsedData, "movementPath")

\* C14: a page opened on a document that fails to decode starts as a fresh
\* session: player at the start with no coins and a one-entry path, and the
\* caches of a fresh world (none restored).
C14_DecodeFailureStartsFresh ==
  (nEvents = 0 /\ DecodeFails(storage[1])) =>
    /\ PlayerIsReset(playerManager)
    /\ cacheStates = FreshWorld

\* the live cacheStates holds an entry that is no memento
HasBadEntry ==
  \E k \in DOMAIN cacheStates : cacheStates[k] = Undecodable

\* C15: with an undecodable entry in the restored cacheStates no exception
\* escapes the script or a handler, and after a move the stored snapshot is
\* the serialization of the live state (the move ended with its save).
C15_BadEntryNeverAborts ==
  HasBadEntry =>
    /\ ~uncaught
    /\ nEvents > 0 => storage = <<saveGameData(playerManager, cacheStates)>>

\* the stored document decodes and lacks at least one of the three fields
\* the load block reads
IsPartial(doc) ==
  /\ "unparsable" \notin DOMAIN doc
  /\ "nonArrays" \notin DOMAIN doc
  /\ OptionalFields \ DOMAIN doc # {}

\* the path ends with the stored entries and the player stands on the last
PathRestored(p, path) ==
  /\ Len(p.movementPath) >= Len(path)
  /\ SubSeq(p.movementPath, Len(p.movementPath) - Len(path) + 1,
            Len(p.movementPath)) = path
  /\ getCurrentLatLng(p) = path[Len(path)]

C17_SnapshotIsLiveState ==
  storage = <<saveGameData(playerManager, cacheStates)>>

\* C18: after every step at most one geolocation watch is registered and
\* geoWatchId is its handle (Null when there is none); a click on the sensor
\* button while tracking cancels exactly that watch and clears the handle,
\* and a click while not tracking, with the collaborator there, starts one.
C18_OneWatchAndItsHandle ==
  [][/\ Cardinality(activeWatches') <= 1
     /\ activeWatches' = IF geoWatchId' = Null THEN {} ELSE {geoWatchId'}
     /\ (toggleGeolocation /\ geoWatchId # Null) =>
          /\ geoWatchId' = Null
          /\ activeWatches' = activeWatches \ {geoWatchId}
     /\ (toggleGeolocation /\ geoWatchId = Null /\ geolocation) =>
          geoWatchId' # Null]_vars

\* tracking was started, delivered the fix one cell south-east of the start
\* as the only event, and was stopped
C18_Witness ==
  /\ geoWatchId = Null
  /\ activeWatches = {}
  /\ nEvents = 1
  /\ playerManager.row = InitialRow - Whole(1)
  /\ playerManager.col = InitialCol + Whole(1)

\* C19: without a geolocation collaborator geoWatchId stays Null and no
\* watch is registered, and a click on the sensor button leaves the player,
\* the caches, the generator counter, the markers and the stored snapshot
\* as they were.
C19_ToggleWithoutSensorIsNoOp ==
  [][~geolocation =>
       /\ geoWatchId' = Null
       /\ activeWatches' = {}
       /\ toggleGeolocation =>
            UNCHANGED <<playerManager, cacheStates, seedValue, storage,
                        popups, playerMarker>>]_vars

\* no collaborator, and sensor clicks were the only events so far: nothing
\* was ever saved
C19_Witness ==
  /\ ~geolocation
  /\ nEvents > 1
  /\ nReloads = 0
  /\ storage = NoItem
  /\ geoWatchId = Null

\* the four direction buttons' arguments to movePlayer
Directions == {<<0, 1>>, <<0, -1>>, <<1, 0>>, <<-1, 0>>}

\* C20: a geolocation update that puts the player on a cell one button
\* press away is, as a step, that button's movePlayer: same player (cell,
\* path, coins), caches, generator counter, markers and stored snapshot.
C20_GeoUpdateIsAMove ==
  [][\A fix \in GeoFixes :
       GeoUpdate(fix[1], fix[2]) =>
         \A d \in Directions :
           (/\ playerManager'.row = playerManager.row + Whole(d[2])
            /\ playerManager'.col = playerManager.col + Whole(d[1]))
             => movePlayer(d[1], d[2])]_vars

\* tracking is on and the player has just arrived on the cell of a fix
\* from a cell one button press away
C20_Witness ==
  /\ geoWatchId # Null
  /\ Len(playerManager.movementPath) >= 3
  /\ \E fix \in GeoFixes : \E d \in Directions :
       LET path == playerManager.movementPath
           here == path[Len(path)]
           before == path[Len(path) - 1]
       IN /\ playerManager.row = MathRound(DivTile(fix[1]))
          /\ playerManager.col = MathRound(DivTile(fix[2]))
          /\ here[1] = before[1] + TimesTile(Whole(d[2]))
          /\ here[2] = before[2] + TimesTile(Whole(d[1]))

\* the n-th cell (from 1) of the neighbourhood of (r, c) in row-major order
NthCell(r, c, n) ==
  cacheKey(r + Whole(((n - 1) \div NeighborhoodWidth) - NEIGHBORHOOD_SIZE),
           c + Whole(((n - 1) % NeighborhoodWidth) - NEIGHBORHOOD_SIZE))

\* the first n for which seededRandom(INITIAL_SEED + n) is a spawn
FirstSpawnDraw ==
  CHOOSE n \in 1..(NeighborhoodWidth * NeighborhoodWidth) :
    /\ ShouldSpawn(seededRandom(INITIAL_SEED + n))
    /\ \A m \in 1..(n - 1) : ~ShouldSpawn(seededRandom(INITIAL_SEED + m))

\* the session has just started: no handler has run
JustStarted == nEvents = 0 /\ nReloads = 0

\* C21: the generator counter starts at INITIAL_SEED and is incremented
\* before each draw (the startup view has advanced it by one per draw, its
\* n-th cell got the value of INITIAL_SEED + n up to the first spawn, whose
\* coin count is the value of the next counter), and no handler, reset
\* included, decreases it.
C21_CounterOnlyAdvances ==
  /\ JustStarted =>
       /\ seedValue = INITIAL_SEED + Cardinality(drawn)
                        + Cardinality(DOMAIN cacheStates)
       /\ \A n \in 1..(FirstSpawnDraw - 1) :
            NthCell(InitialRow, InitialCol, n) \notin DOMAIN cacheStates
       /\ LET key == NthCell(InitialRow, InitialCol, FirstSpawnDraw)
          IN /\ key \in DOMAIN cacheStates
             /\ Len(cacheStates[key][3]) =
                  InitialCoinOffering(
                    seededRandom(INITIAL_SEED + FirstSpawnDraw + 1))
  /\ [][seedValue' >= seedValue]_vars

\* a confirmed reset has run and drew its decisions from a counter beyond
\* the one the startup view had left
C21_Witness ==
  /\ nResets > 0
  /\ seedValue > Startup(NoItem).view.seedValue

\* the cache keys recorded when the updateMapView of this step began (a
\* confirmed reset empties cacheStates first)
RecordedBefore ==
  IF nResets' # nResets THEN {} ELSE DOMAIN cacheStates

\* the counter from which the n-th cell of the step's neighbourhood drew its
\* decision, if every draw so far took one counter value in row-major order
DecisionCounter(n) ==
  LET r == playerManager'.row
      c == playerManager'.col
      before == {NthCell(r, c, m) : m \in 1..(n - 1)}
  IN seedValue + 1
       + Cardinality(before \ RecordedBefore)
       + Cardinality((before \cap DOMAIN cacheStates') \ RecordedBefore)

\* this step ran updateMapView: a move or a confirmed reset
ViewUpdated == playerManager' # playerManager \/ nResets' # nResets

\* C22: one updateMapView advances the counter by (cells of the
\* neighbourhood without a recorded cache) + (caches it spawns); the draws
\* are taken in row-major order, one per decision and one more per coin
\* count, and a cell with a recorded cache draws nothing and keeps its
\* memento.
C22_DrawsPerViewUpdate ==
  [][IF ViewUpdated
     THEN LET r == playerManager'.row
              c == playerManager'.col
              cells == {NthCell(r, c, n) :
                          n \in 1..(NeighborhoodWidth * NeighborhoodWidth)}
          IN /\ seedValue' - seedValue =
                  Cardinality(cells \ RecordedBefore)
                    + Cardinality(DOMAIN cacheStates' \ RecordedBefore)
             /\ \A n \in 1..(NeighborhoodWidth * NeighborhoodWidth) :
                  LET key == NthCell(r, c, n)
                  IN IF key \in RecordedBefore
                     THEN cacheStates'[key] = cacheStates[key]
                     ELSE \E d \in {DecisionCounter(n)} :
                          \E spawns \in {ShouldSpawn(seededRandom(d))} :
                             /\ key \in DOMAIN cacheStates' <=> spawns
                             /\ spawns =>
                                  Len(cacheStates'[key][3]) =
                                    InitialCoinOffering(seededRandom(d + 1))
     ELSE seedValue' = seedValue]_vars

\* a move's view update found recorded caches in the neighbourhood, drew
\* for the new cells only and spawned a cache among them
C22_Witness ==
  /\ nEvents > 0
  /\ nResets = 0
  /\ drawn \cap DOMAIN cacheStates # {}
  /\ Neighborhood(playerManager) \cap (DOMAIN cacheStates \ drawn) # {}
  /\ Cardinality(drawn) < NeighborhoodWidth * NeighborhoodWidth

\* C23: a move or a geolocation update (the steps that lengthen the
\* movement path) leaves the player's coins and every recorded cache's
\* memento as they were and keeps every recorded cache recorded; a collect
\* or a deposit (the steps that change the player's coins) leaves the
\* player's row, col and movement path and the generator counter as they
\* were, records no cache and changes no cache but the one of its popup.
C23_OperationFrames ==
  [][/\ playerManager'.movementPath # playerManager.movementPath =>
          /\ playerManager'.coins = playerManager.coins
          /\ \A k \in DOMAIN cacheStates :
               /\ k \in DOMAIN cacheStates'
               /\ cacheStates'[k] = cacheStates[k]
     /\ playerManager'.coins # playerManager.coins =>
          /\ playerManager'.row = playerManager.row
          /\ playerManager'.col = playerManager.col
          /\ playerManager'.movementPath = playerManager.movementPath
          /\ seedValue' = seedValue
          /\ DOMAIN cacheStates' = DOMAIN cacheStates
          /\ \E key \in DOMAIN popups :
               /\ CoinOpAt(key)
               /\ cacheStates'[key][3] # cacheStates[key][3]
               /\ \A k \in DOMAIN cacheStates \ {key} :
                    cacheStates'[k] = cacheStates[k]]_vars

\* the player has walked on with a collected coin: the coin's home cache is
\* recorded and out of reach
C23_Witness ==
  /\ Len(playerManager.movementPath) > 1
  /\ \E n \in 1..Len(playerManager.coins) :
       LET home == cacheKey(playerManager.coins[n][1],
                            playerManager.coins[n][2])
       IN home \in DOMAIN cacheStates /\ ~InReach(home)

\* C24: a reset whose prompt is declined (a prompt answered without a reset
\* being counted) leaves the player's row, col, coins and movement path, the
\* cache states, the generator counter and the persisted snapshot as they
\* were.
C24_DeclinedResetChangesNothing ==
  [][nPrompts' # nPrompts /\ nResets' = nResets =>
       /\ playerManager'.row = playerManager.row
       /\ playerManager'.col = playerManager.col
       /\ playerManager'.coins = playerManager.coins
       /\ playerManager'.movementPath = playerManager.movementPath
       /\ cacheStates' = cacheStates
       /\ seedValue' = seedValue
       /\ storage' = storage]_vars

\* a prompt was declined in a session that has moved the player and has
\* saved a snapshot
C24_Witness ==
  /\ nPrompts > nResets
  /\ Len(playerManager.movementPath) > 1
  /\ storage # NoItem
  /\ cacheStates # EmptyMap

\* C25: a deposit made with coins in hand leaves the cache's list as it was
\* followed by the player's coins in the order held, and the player with
\* none; a deposit made with no coin in hand changes neither the player nor
\* the caches nor the stored snapshot; a collect leaves the cache's other
\* coins in their order and puts the collected coin at the end of the
\* player's list.
C25_CoinOrder ==
  [][/\ \A key \in DOMAIN popups :
          Deposit(key) =>
            IF playerManager.coins # <<>>
            THEN /\ cacheStates'[key][3] =
                      cacheStates[key][3] \o playerManager.coins
                 /\ playerManager'.coins = <<>>
                 /\ storage' = <<saveGameData(playerManager', cacheStates')>>
            ELSE /\ playerManager' = playerManager
                 /\ cacheStates' = cacheStates
                 /\ popups' = popups
                 /\ storage' = storage
     /\ \A key \in DOMAIN popups : \A index \in 0..(MaxCollectIndex - 1) :
          Collect(key, index) =>
            /\ cacheStates'[key][3] = WithoutPlace(cacheStates[key][3], index)
            /\ playerManager'.coins =
                 playerManager.coins \o <<cacheStates[key][3][index + 1]>>]_vars

\* the player's two coins were deposited behind the coins of a cache, in
\* the order held (the last gained comes last)
C25_Witness ==
  /\ playerManager.coins = <<>>
  /\ storage # NoItem
  /\ Has(storage[1], "coins")
  /\ storage[1].coins = <<>>
  /\ \E k \in DOMAIN cacheStates :
       LET ids == cacheStates[k][3]
           n == Len(ids)
       IN /\ n > 2
          /\ cacheKey(ids[n - 1][1], ids[n - 1][2]) # k
          /\ ids[n - 1] # ids[n]
          /\ cacheKey(ids[n][1], ids[n][2]) = k

\* a deposit button was clicked with no coin in hand and the stored
\* document is still the one the page was opened on, not a snapshot
C25_EmptyDepositWitness ==
  /\ nEvents > 0
  /\ playerManager.coins = <<>>
  /\ storage # NoItem
  /\ ~Has(storage[1], "coins")

\* the player after a step of deltaRow rows and deltaCol columns: the
\* cell moved to and one more path entry, that cell's position
MovedBy(deltaRow, deltaCol) ==
  /\ playerManager'.row = playerManager.row + Whole(deltaRow)
  /\ playerManager'.col = playerManager.col + Whole(deltaCol)
  /\ Len(playerManager'.movementPath) = Len(playerManager.movementPath) + 1
  /\ SubSeq(playerManager'.movementPath, 1, Len(playerManager.movementPath))
       = playerManager.movementPath
  /\ playerManager'.movementPath[Len(playerManager'.movementPath)]
       = <<TimesTile(playerManager'.row), TimesTile(playerManager'.col)>>

\* C26: north adds one to the row, south takes one off, east adds one to the
\* col, west takes one off, the other index stays, and each appends one
\* entry to the movement path; so the two steps of a move and its opposite
\* cancel, from whatever cell the player is on.
C26_MovesAreUnitSteps ==
  [][/\ North => MovedBy(1, 0)
     /\ South => MovedBy(-1, 0)
     /\ East => MovedBy(0, 1)
     /\ West => MovedBy(0, -1)
     /\ \A d \in Directions :
          LET there == updatePosition(playerManager', Whole(d[2]), Whole(d[1]))
              back == updatePosition(there, Whole(-d[2]), Whole(-d[1]))
          IN /\ back.row = playerManager'.row
             /\ back.col = playerManager'.col
             /\ Len(back.movementPath) = Len(playerManager'.movementPath) + 2]_vars

\* the player went to a neighbouring cell and came back by the opposite
\* button: the last path entry is the last but two, the one between differs
C26_Witness ==
  /\ nEvents = 2
  /\ LET path == playerManager.movementPath
         n == Len(path)
     IN /\ n >= 3
        /\ path[n] = path[n - 2]
        /\ path[n - 1] # path[n]

\* the cells the player has occupied since the start or the last reset:
\* those of the movement path's entries
Occupied ==
  {cacheKey(MathRound(DivTile(playerManager.movementPath[n][1])),
            MathRound(DivTile(playerManager.movementPath[n][2]))) :
     n \in 1..Len(playerManager.movementPath)}

\* C27: every recorded cache lies within NEIGHBORHOOD_SIZE rows and
\* NEIGHBORHOOD_SIZE columns of a cell the player has occupied since the
\* start or the last reset.
C27_CachesNearOccupiedCells ==
  \A k \in DOMAIN cacheStates : \E cell \in Occupied :
    /\ k[1] - cell[1] \in Whole(-NEIGHBORHOOD_SIZE)..Whole(NEIGHBORHOOD_SIZE)
    /\ k[2] - cell[2] \in Whole(-NEIGHBORHOOD_SIZE)..Whole(NEIGHBORHOOD_SIZE)

\* after a reset the player has walked on: a cache is recorded that lies
\* outside the neighbourhood of the cell the player is on now
C27_Witness ==
  /\ nResets > 0
  /\ Cardinality(Occupied) > 1
  /\ DOMAIN cacheStates \ Neighborhood(playerManager) # {}

\* C28: the position last given to playerMarker is the position of the
\* player's cell.
C28_MarkerFollowsPlayer ==
  playerMarker = getCurrentLatLng(playerManager)

\* C29 (as claimed): after every event the two revisions have written the
\* same snapshot.
C29_RevisionsWriteSameSnapshot == prev.storage = storage

\* the position of the cell a latitude/longitude pair lies in
CellPosition(latLng) ==
  <<TimesTile(MathRound(DivTile(latLng[1]))),
    TimesTile(MathRound(DivTile(latLng[2])))>>

\* C29 (amended): after every event the two revisions have written
\* snapshots with the same row, col, coins and cacheStates and with movement
\* paths of the same length; the paths differ in what they record: the
\* first entry is the classroom's exact position in this revision and the
\* start cell's position in the previous one, and every later entry is the
\* position of the player's cell in this revision, which the previous
\* revision records too for a button move but not for a geolocation update,
\* where it records the fix itself.
C29_RevisionsAgreeButOnPath ==
  /\ storage = NoItem <=> prev.storage = NoItem
  /\ storage # NoItem =>
       LET this == storage[1]
           that == prev.storage[1]
       IN /\ this.row = that.row
          /\ this.col = that.col
          /\ this.coins = that.coins
          /\ this.cacheStates = that.cacheStates
          /\ Len(this.movementPath) = Len(that.movementPath)
          /\ this.movementPath[1] = InitialLatLng
          /\ that.movementPath[1] = CellPosition(InitialLatLng)
          /\ \A n \in 2..Len(this.movementPath) :
               this.movementPath[n] = CellPosition(that.movementPath[n])

\* both revisions have saved after a collect and a geolocation update: the
\* snapshots hold a coin, and their paths differ in the first entry and in
\* the entry of the fix
C29_Witness ==
  /\ storage # NoItem
  /\ storage[1].coins # <<>>
  /\ prev.storage[1].movementPath[1] # storage[1].movementPath[1]
  /\ \E n \in 2..Len(storage[1].movementPath) :
       prev.storage[1].movementPath[n] # storage[1].movementPath[n]

\* C30: every cacheStates entry decodes to a cache whose i and j are those
\* of its key, and is the very string toMemento gives for a CacheCell with
\* that i, j and coin list, whether updateMapView wrote it with toMemento or
\* a collect or deposit listener with createCacheState.
C30_MementoMatchesKey ==
  \A k \in DOMAIN cacheStates :
    LET parsed == fromMemento(cacheStates[k])
    IN /\ cacheKey(parsed.i, parsed.j) = k
       /\ cacheStates[k] =
            toMemento(CacheCell(parsed.i, parsed.j, parsed.coinIds))

\* a collect or a deposit has written an entry: a recorded cache no longer
\* holds the batch minted for it
C30_Witness ==
  /\ storage # NoItem
  /\ \E k \in DOMAIN cacheStates : ~IsFreshBatch(k, cacheStates[k])

====
